---- MODULE Spec2Model ----
(***************************************************************************)
(* A model of vm/native/native.cpp: the 64-bit integer primitives lAdd ..  *)
(* lCmp and the bump allocator gcMalloc over the globals heap and bump.    *)
(*                                                                         *)
(* Machine integers keep their width.  An N-bit value is a little-endian   *)
(* sequence of N/16 limbs, each in 0 .. 2^16 - 1, holding the two's        *)
(* complement bit pattern: int32_t is two limbs, int64_t and uintptr_t     *)
(* (an LP64 host) are four.  Arithmetic is carried limb by limb, so it is  *)
(* exact modulo 2^N.                                                       *)
(***************************************************************************)
EXTENDS Integers, Sequences, FiniteSets, TLC

VARIABLES heap, bump, pc, sizes, rets,
          tpc, tsize, curr, tmp, tret,
          l, r, v, result, result32, calls

vars == <<heap, bump, pc, sizes, rets, tpc, tsize, curr, tmp, tret,
          l, r, v, result, result32, calls>>

allocVars == <<heap, bump, sizes, rets>>
threadVars == <<tpc, tsize, curr, tmp, tret>>
arithVars == <<l, r, v, result, result32, calls>>

(***************************************************************************)
(* Bounds of the model.                                                    *)
(***************************************************************************)
MaxAllocs == 3
MaxCalls == 2

(***************************************************************************)
(* Machine words.                                                          *)
(***************************************************************************)
LimbBase == 2^16
LimbTop == LimbBase - 1
SignLimb == LimbBase \div 2

LongBits == 64
IntBits == 32
PtrBits == 64

Limbs(bits) == bits \div 16

\* The k-limb two's complement pattern of the integer n, -2^31 <= n < 2^31.
Word(n, k) ==
  [i \in 1..k |-> IF i = 1 THEN n % LimbBase
                  ELSE IF i = 2 THEN (n \div LimbBase) % LimbBase
                  ELSE IF n < 0 THEN LimbTop ELSE 0]

I32(n) == Word(n, Limbs(IntBits))
I64(n) == Word(n, Limbs(LongBits))
UPtr(n) == Word(n, Limbs(PtrBits))

IsNeg(x) == x[Len(x)] >= SignLimb

RECURSIVE AddFrom(_, _, _, _)
AddFrom(x, y, i, c) ==
  IF i > Len(x) THEN <<>>
  ELSE LET s == x[i] + y[i] + c
       IN <<s % LimbBase>> \o AddFrom(x, y, i + 1, s \div LimbBase)

\* x + y modulo 2^N.
WAdd(x, y) == AddFrom(x, y, 1, 0)

\* ~x
WNot(x) == [i \in 1..Len(x) |-> LimbTop - x[i]]

\* -x modulo 2^N.
WNeg(x) == AddFrom(WNot(x), [i \in 1..Len(x) |-> 0], 1, 1)

\* x - y modulo 2^N.
WSub(x, y) == AddFrom(x, WNot(y), 1, 1)

RECURSIVE BitAnd(_, _)
BitAnd(a, b) ==
  IF a = 0 \/ b = 0 THEN 0
  ELSE (a % 2) * (b % 2) + 2 * BitAnd(a \div 2, b \div 2)

\* x & y
WAnd(x, y) == [i \in 1..Len(x) |-> BitAnd(x[i], y[i])]

\* Conversion of a signed value to a wider type: sign extension.
SignExtend(x, k) ==
  [i \in 1..k |-> IF i <= Len(x) THEN x[i] ELSE IF IsNeg(x) THEN LimbTop ELSE 0]

RECURSIVE ULessFrom(_, _, _)
ULessFrom(x, y, i) ==
  IF i = 0 THEN FALSE
  ELSE IF x[i] # y[i] THEN x[i] < y[i]
  ELSE ULessFrom(x, y, i - 1)

\* x < y, both read as unsigned.
ULess(x, y) == ULessFrom(x, y, Len(x))

\* x < y, both read as signed.
SLess(x, y) == IF IsNeg(x) # IsNeg(y) THEN IsNeg(x) ELSE ULess(x, y)

(***************************************************************************)
(* Shifts, products and quotients of words.                                *)
(***************************************************************************)
\* Bit i of x, bit 0 the least significant.
Bit(x, i) == (x[i \div 16 + 1] \div 2^(i % 16)) % 2

\* Limb i of x, or fill beyond either end of x.
LimbOr(x, i, fill) == IF i >= 1 /\ i <= Len(x) THEN x[i] ELSE fill

\* x << n for 0 <= n < 16 * Len(x): the bits shifted out are lost.
WShl(x, n) ==
  LET ls == n \div 16
      bs == n % 16
  IN [i \in 1..Len(x) |->
        ((LimbOr(x, i - ls, 0) * 2^bs) % LimbBase)
          + (LimbOr(x, i - ls - 1, 0) \div 2^(16 - bs))]

\* x >> n for 0 <= n < 16 * Len(x), the vacated bits taken from limbs of fill.
ShiftRight(x, n, fill) ==
  LET ls == n \div 16
      bs == n % 16
  IN [i \in 1..Len(x) |->
        (LimbOr(x, i + ls, fill) \div 2^bs)
          + ((LimbOr(x, i + ls + 1, fill) % 2^bs) * 2^(16 - bs))]

\* The bytes of x, least significant first.
ToBytes(x) ==
  [i \in 1..2 * Len(x) |->
     IF i % 2 = 1 THEN x[(i + 1) \div 2] % 256 ELSE x[i \div 2] \div 256]

FromBytes(b) == [i \in 1..(Len(b) \div 2) |-> b[2 * i - 1] + 256 * b[2 * i]]

RECURSIVE ColumnSum(_, _, _, _)
ColumnSum(a, b, k, i) ==
  IF i > k THEN 0 ELSE a[i] * b[k + 1 - i] + ColumnSum(a, b, k, i + 1)

RECURSIVE MulFrom(_, _, _, _)
MulFrom(a, b, k, c) ==
  IF k > Len(a) THEN <<>>
  ELSE LET s == ColumnSum(a, b, k, 1) + c
       IN <<s % 256>> \o MulFrom(a, b, k + 1, s \div 256)

\* x * y modulo 2^N.
WMul(x, y) == FromBytes(MulFrom(ToBytes(x), ToBytes(y), 1, 0))

\* The magnitude of a signed x as an unsigned word (2^(N-1) for the least x).
Abs(x) == IF IsNeg(x) THEN WNeg(x) ELSE x

\* Binary long division of unsigned n by d # 0, from bit i down:
\* <<quotient, remainder>>.
RECURSIVE UDivModFrom(_, _, _, _, _)
UDivModFrom(n, d, i, q, m) ==
  IF i < 0 THEN <<q, m>>
  ELSE LET m2 == [WAdd(m, m) EXCEPT ![1] = @ + Bit(n, i)]
       IN IF ULess(m2, d)
          THEN UDivModFrom(n, d, i - 1, q, m2)
          ELSE UDivModFrom(n, d, i - 1,
                           [q EXCEPT ![i \div 16 + 1] = @ + 2^(i % 16)],
                           WSub(m2, d))

UDivMod(n, d) ==
  LET zero == [i \in 1..Len(n) |-> 0]
  IN UDivModFrom(n, d, 16 * Len(n) - 1, zero, zero)

\* x / y and x % y of signed words, y # 0: the quotient truncated toward
\* zero, the remainder with the sign of x.
SDiv(x, y) ==
  LET q == UDivMod(Abs(x), Abs(y))[1]
  IN IF IsNeg(x) # IsNeg(y) THEN WNeg(q) ELSE q

SRem(x, y) ==
  LET m == UDivMod(Abs(x), Abs(y))[2]
  IN IF IsNeg(x) THEN WNeg(m) ELSE m

(***************************************************************************)
(* The allocator: uintptr_t heap = 0, bump = 0; main; gcMalloc.            *)
(***************************************************************************)
\* malloc(1024 * 1024 * 16)
HeapBytes == 1024 * 1024 * 16

\* What malloc can return: NULL when the reservation fails (main does not
\* check), or the 16-byte aligned start of a block that ends inside the
\* address space.
MallocResults ==
  { UPtr(0),                        \* NULL
    <<16, 21845, 32530, 0>>,        \* 0x00007f1255550010
    <<65520, 65535, 0, 0>>          \* 0x00000000fffffff0
  }

INT_MAX == 2147483647
INT_MIN == -INT_MAX - 1

\* The int32_t sizes the callers pass in the model.
SizeSamples ==
  <<10, 20, 1, 4, 0, -1, -4, -5, HeapBytes, INT_MAX - 3, INT_MAX, INT_MIN>>

Sizes == {SizeSamples[i] : i \in DOMAIN SizeSamples}

\* Two threads of the embedding VM that may call gcMalloc.
Threads == {1, 2}

\* Faulty variants of Rounded: the + 3 left out; the mask left out.
RoundedDown(size) == WAnd(I32(size), WNot(I32(3)))

RoundedNoMask(size) == WAdd(I32(size), I32(3))

\* (size + 3) & ~0x03, in int.  For size > INT_MAX - 3 the addition overflows,
\* which C++ leaves undefined; the add instruction the expression compiles to
\* wraps, and that is the value modelled.
Rounded(size) == WAnd(WAdd(I32(size), I32(3)), WNot(I32(3)))

\* A faulty variant of Advance: the int converted as if it were unsigned, its upper
\* bits zero.
AdvanceZeroExtended(b, size) == WAdd(b, Rounded(size) \o <<0, 0>>)

\* bump += (size + 3) & ~0x03: the int is converted to uintptr_t (sign
\* extension) and added modulo 2^64.
Advance(b, size) == WAdd(b, SignExtend(Rounded(size), Limbs(PtrBits)))

Init ==
  /\ heap = UPtr(0)
  /\ bump = UPtr(0)
  /\ pc = "start"
  /\ sizes = <<>>
  /\ rets = <<>>
  /\ tpc = [t \in Threads |-> "idle"]
  /\ tsize = [t \in Threads |-> 0]
  /\ curr = [t \in Threads |-> UPtr(0)]
  /\ tmp = [t \in Threads |-> UPtr(0)]
  /\ tret = [t \in Threads |-> UPtr(0)]
  /\ l = I64(0)
  /\ r = I64(0)
  /\ v = 0
  /\ result = I64(0)
  /\ result32 = I32(0)
  /\ calls = <<>>

\* main: bump = heap = (uintptr_t)malloc(1024 * 1024 * 16);
main ==
  /\ pc = "start"
  /\ \E p \in MallocResults :
       /\ heap' = p
       /\ bump' = p
  /\ pc' = "running"
  /\ UNCHANGED <<sizes, rets, threadVars, arithVars>>

\* gcMalloc(size), called on the one allocating thread:
\*   uintptr_t curr = bump; bump += (size + 3) & ~0x03; return curr;
\* sizes and rets are the caller's record of the calls made and of the
\* addresses returned.
gcMalloc(size) ==
  /\ pc = "running"
  /\ Len(sizes) < MaxAllocs
  /\ sizes' = Append(sizes, size)
  /\ rets' = Append(rets, bump)
  /\ bump' = Advance(bump, size)
  /\ UNCHANGED <<heap, pc, threadVars, arithVars>>

Next ==
  \/ main
  \/ \E i \in DOMAIN SizeSamples : gcMalloc(SizeSamples[i])

Spec == Init /\ [][Next]_vars

(***************************************************************************)
(* gcMalloc called from two threads.  Nothing orders the accesses to bump, *)
(* so the call is three steps: the load into curr, the load of bump for    *)
(* the +=, and the store of the sum.  (A compiler that reuses curr for the *)
(* += is the run in which LoadBump follows ReadBump at once.)  Each thread *)
(* makes one call.                                                         *)
(***************************************************************************)
Call(t, size) ==
  /\ pc = "running"
  /\ tpc[t] = "idle"
  /\ tsize' = [tsize EXCEPT ![t] = size]
  /\ tpc' = [tpc EXCEPT ![t] = "read"]
  /\ UNCHANGED <<allocVars, pc, curr, tmp, tret, arithVars>>

\* A faulty variant of ReadBump: the cursor is fetched and advanced in one step.
ReadBumpFetchAdd(t) ==
  /\ tpc[t] = "read"
  /\ curr' = [curr EXCEPT ![t] = bump]
  /\ bump' = Advance(bump, tsize[t])
  /\ tpc' = [tpc EXCEPT ![t] = "load"]
  /\ UNCHANGED <<heap, sizes, rets, pc, tsize, tmp, tret, arithVars>>

\* uintptr_t curr = bump;
ReadBump(t) ==
  /\ tpc[t] = "read"
  /\ curr' = [curr EXCEPT ![t] = bump]
  /\ tpc' = [tpc EXCEPT ![t] = "load"]
  /\ UNCHANGED <<allocVars, pc, tsize, tmp, tret, arithVars>>

\* bump += ...: the load of bump.
LoadBump(t) ==
  /\ tpc[t] = "load"
  /\ tmp' = [tmp EXCEPT ![t] = bump]
  /\ tpc' = [tpc EXCEPT ![t] = "store"]
  /\ UNCHANGED <<allocVars, pc, tsize, curr, tret, arithVars>>

\* bump += ...: the store of the sum.
StoreBump(t) ==
  /\ tpc[t] = "store"
  /\ bump' = Advance(tmp[t], tsize[t])
  /\ tpc' = [tpc EXCEPT ![t] = "ret"]
  /\ UNCHANGED <<heap, sizes, rets, pc, tsize, curr, tmp, tret, arithVars>>

\* return curr;
Return(t) ==
  /\ tpc[t] = "ret"
  /\ tret' = [tret EXCEPT ![t] = curr[t]]
  /\ tpc' = [tpc EXCEPT ![t] = "done"]
  /\ UNCHANGED <<allocVars, pc, tsize, curr, tmp, arithVars>>

NextConc ==
  \/ main
  \/ \E t \in Threads, size \in Sizes : Call(t, size)
  \/ \E t \in Threads : ReadBump(t)
  \/ \E t \in Threads : LoadBump(t)
  \/ \E t \in Threads : StoreBump(t)
  \/ \E t \in Threads : Return(t)

SpecConc == Init /\ [][NextConc]_vars

(***************************************************************************)
(* The arithmetic entry points.  Every one reads its operands through      *)
(* pointers and writes *result.  The caller's cells are l, r, the int32_t  *)
(* v, result and result32; calls records the entry points called so far.   *)
(* A call is passed &l until some call has written result; from then on    *)
(* it is passed &result in its place, so that it works on what the calls   *)
(* before it produced.                                                     *)
(*                                                                         *)
(* Signed overflow of +, -, * and unary -, and << of a negative value, are *)
(* undefined in C++; the instructions they compile to produce the two's    *)
(* complement result on every target, and that is the value modelled.      *)
(* Division by zero, the quotient INT64_MIN / -1 and a shift count outside *)
(* 0 .. 63 are undefined too, and there the targets differ: the model      *)
(* takes every outcome they produce.                                       *)
(***************************************************************************)
MinLong == <<0, 0, 0, SignLimb>>
MaxLong == <<LimbTop, LimbTop, LimbTop, SignLimb - 1>>

\* The operand values of the model, in ascending signed order.
LongSamples ==
  << MinLong,
     WAdd(MinLong, I64(1)),
     <<0, 0, LimbTop, LimbTop>>,     \* -2^32
     I64(-7), I64(-2), I64(-1), I64(0), I64(1), I64(2), I64(3), I64(7),
     <<LimbTop, LimbTop, 0, 0>>,     \* 2^32 - 1
     <<0, 0, 1, 0>>,                 \* 2^32
     WSub(MaxLong, I64(1)),
     MaxLong >>

\* The shift counts of the model: all of 0 .. 63, and counts outside.
ShiftSamples == (0..(LongBits - 1)) \cup {-1, LongBits, LongBits + 1, INT_MAX, INT_MIN}

\* What the caller's result cells hold before the first call.
Poison == <<48879, 57005, 48879, 57005>>
Poison32 == <<48879, 57005>>

\* After main, before the first call of an arithmetic entry point.
CallerReady ==
  /\ heap = <<16, 21845, 32530, 0>>
  /\ bump = heap
  /\ pc = "running"
  /\ sizes = <<>>
  /\ rets = <<>>
  /\ tpc = [t \in Threads |-> "idle"]
  /\ tsize = [t \in Threads |-> 0]
  /\ curr = [t \in Threads |-> UPtr(0)]
  /\ tmp = [t \in Threads |-> UPtr(0)]
  /\ tret = [t \in Threads |-> UPtr(0)]
  /\ result = Poison
  /\ result32 = Poison32
  /\ calls = <<>>

InitArith ==
  /\ CallerReady
  /\ \E i, j \in DOMAIN LongSamples :
       /\ l = LongSamples[i]
       /\ r = LongSamples[j]
  /\ v = 0

InitShift ==
  /\ CallerReady
  /\ \E i \in DOMAIN LongSamples : l = LongSamples[i]
  /\ r = I64(0)
  /\ v \in ShiftSamples

\* The cell passed as l.
Operand ==
  IF \E i \in 1..Len(calls) : calls[i] # "lCmp" THEN result ELSE l

\* The entry point fn is called.
Enter(fn) ==
  /\ pc = "running"
  /\ Len(calls) < MaxCalls
  /\ calls' = Append(calls, fn)

\* *l + *r
AddValue(x, y) == WAdd(x, y)

\* -*l
NegValue(x) == WNeg(x)

\* A faulty variant of SubValue: the operands exchanged.
SubValueSwapped(x, y) == WSub(y, x)

\* *l - *r
SubValue(x, y) == WSub(x, y)

\* *l * *r
MulValue(x, y) == WMul(x, y)

\* *l / *r is defined: *r is not zero and the quotient is representable.
DivDefined(x, y) == y # I64(0) /\ ~(x = MinLong /\ y = I64(-1))

\* *l / *r where it is defined.
DivValue(x, y) == SDiv(x, y)

\* *l % *r where *l / *r is defined.
RemValue(x, y) == SRem(x, y)

\* What a target whose divide instruction does not trap writes for an
\* undefined *l / *r: for a zero divisor 0 (AArch64) or -1 (RISC-V), for
\* INT64_MIN / -1 the wrapped quotient INT64_MIN.
DivUndefinedValues(x, y) ==
  IF y = I64(0) THEN {I64(0), I64(-1)} ELSE {MinLong}

\* And for an undefined *l % *r: the dividend for a zero divisor, 0 for
\* INT64_MIN % -1.
RemUndefinedValues(x, y) ==
  IF y = I64(0) THEN {x} ELSE {I64(0)}

\* The shift count is inside 0 .. 63.
ShiftDefined(n) == 0 <= n /\ n < LongBits

\* *l << v for a count in range.
ShlValue(x, n) == WShl(x, n)

\* *l >> v for a count in range: the sign bit fills the vacated bits.
ShrValue(x, n) == ShiftRight(x, n, IF IsNeg(x) THEN LimbTop ELSE 0)

\* A faulty variant of UshrValue: the cast to uint64_t left out.
UshrValueSigned(x, n) == ShiftRight(x, n, IF IsNeg(x) THEN LimbTop ELSE 0)

\* (uint64_t)*l >> v for a count in range: zeros fill the vacated bits.
UshrValue(x, n) == ShiftRight(x, n, 0)

\* A faulty variant of CmpValue: the operands compared as unsigned.
CmpValueUnsigned(x, y) ==
  IF ULess(y, x) THEN I32(1)
  ELSE IF ULess(x, y) THEN I32(-1)
  ELSE I32(0)

\* if (*l > *r) 1 else if (*l < *r) -1 else 0
CmpValue(x, y) ==
  IF SLess(y, x) THEN I32(1)
  ELSE IF SLess(x, y) THEN I32(-1)
  ELSE I32(0)

lAdd ==
  /\ Enter("lAdd")
  /\ result' = AddValue(Operand, r)
  /\ UNCHANGED <<allocVars, pc, threadVars, l, r, v, result32>>

lNeg ==
  /\ Enter("lNeg")
  /\ result' = NegValue(Operand)
  /\ UNCHANGED <<allocVars, pc, threadVars, l, r, v, result32>>

lSub ==
  /\ Enter("lSub")
  /\ result' = SubValue(Operand, r)
  /\ UNCHANGED <<allocVars, pc, threadVars, l, r, v, result32>>

\* Where the quotient is undefined the divide instruction traps (x86, wasm)
\* and the process ends with *result unwritten, or it does not trap and a
\* value is written.
lDiv ==
  /\ Enter("lDiv")
  /\ \/ /\ DivDefined(Operand, r)
        /\ result' = DivValue(Operand, r)
        /\ pc' = pc
     \/ /\ ~DivDefined(Operand, r)
        /\ pc' = "fault"
        /\ result' = result
     \/ /\ ~DivDefined(Operand, r)
        /\ result' \in DivUndefinedValues(Operand, r)
        /\ pc' = pc
  /\ UNCHANGED <<allocVars, threadVars, l, r, v, result32>>

lMul ==
  /\ Enter("lMul")
  /\ result' = MulValue(Operand, r)
  /\ UNCHANGED <<allocVars, pc, threadVars, l, r, v, result32>>

lRem ==
  /\ Enter("lRem")
  /\ \/ /\ DivDefined(Operand, r)
        /\ result' = RemValue(Operand, r)
        /\ pc' = pc
     \/ /\ ~DivDefined(Operand, r)
        /\ pc' = "fault"
        /\ result' = result
     \/ /\ ~DivDefined(Operand, r)
        /\ result' \in RemUndefinedValues(Operand, r)
        /\ pc' = pc
  /\ UNCHANGED <<allocVars, threadVars, l, r, v, result32>>

\* A count outside 0 .. 63 is undefined: the shift instruction uses the count
\* modulo 64 (x86-64, AArch64, wasm), or every bit is shifted out (32-bit ARM).
lShl ==
  /\ Enter("lShl")
  /\ \/ /\ ShiftDefined(v)
        /\ result' = ShlValue(Operand, v)
     \/ /\ ~ShiftDefined(v)
        /\ result' \in {ShlValue(Operand, v % LongBits), I64(0)}
  /\ UNCHANGED <<allocVars, pc, threadVars, l, r, v, result32>>

lShr ==
  /\ Enter("lShr")
  /\ \/ /\ ShiftDefined(v)
        /\ result' = ShrValue(Operand, v)
     \/ /\ ~ShiftDefined(v)
        /\ result' \in {ShrValue(Operand, v % LongBits),
                         IF IsNeg(Operand) THEN I64(-1) ELSE I64(0)}
  /\ UNCHANGED <<allocVars, pc, threadVars, l, r, v, result32>>

lUshr ==
  /\ Enter("lUshr")
  /\ \/ /\ ShiftDefined(v)
        /\ result' = UshrValue(Operand, v)
     \/ /\ ~ShiftDefined(v)
        /\ result' \in {UshrValue(Operand, v % LongBits), I64(0)}
  /\ UNCHANGED <<allocVars, pc, threadVars, l, r, v, result32>>

lCmp ==
  /\ Enter("lCmp")
  /\ result32' = CmpValue(Operand, r)
  /\ UNCHANGED <<allocVars, pc, threadVars, l, r, v, result>>

NextArith == lAdd \/ lNeg \/ lSub \/ lMul \/ lCmp

SpecArith == InitArith /\ [][NextArith]_vars

NextDiv == lDiv \/ lRem

SpecDiv == InitArith /\ [][NextDiv]_vars

NextShift == lShl \/ lShr \/ lUshr

SpecShift == InitShift /\ [][NextShift]_vars

(***************************************************************************)
(* Properties of the allocator.                                            *)
(***************************************************************************)
\* The value of the int expression (s + 3) & ~3 for an int32_t s: s rounded up
\* to a multiple of four, which for s > INT_MAX - 3 is 2^31 and so, in int,
\* INT_MIN.
RoundedInt(s) == IF s > INT_MAX - 3 THEN INT_MIN ELSE 4 * ((s + 3) \div 4)

\* heap plus the rounded sizes of the calls before the k-th.
RECURSIVE PrefixAddr(_)
PrefixAddr(k) ==
  IF k = 1 THEN heap
  ELSE WAdd(PrefixAddr(k - 1), UPtr(RoundedInt(sizes[k - 1])))

\* C1: the k-th gcMalloc call returns heap plus the sum of ((s_i + 3) & ~3)
\* over the earlier calls and leaves bump at that address plus
\* ((s_k + 3) & ~3); gcMalloc(10), gcMalloc(20), gcMalloc(1) return heap + 0,
\* heap + 12 and heap + 32.
C1_PrefixSums ==
  /\ Len(rets) = Len(sizes)
  /\ \A k \in 1..Len(rets) : rets[k] = PrefixAddr(k)
  /\ bump = PrefixAddr(Len(sizes) + 1)
  /\ (Len(sizes) >= 3 /\ SubSeq(sizes, 1, 3) = <<10, 20, 1>>) =>
        /\ rets[1] = heap
        /\ rets[2] = WAdd(heap, UPtr(12))
        /\ rets[3] = WAdd(heap, UPtr(32))

C1_Witness ==
  /\ sizes = <<10, 20, 1>>
  /\ Len(rets) = 3
  /\ bump = WAdd(heap, UPtr(36))

RECURSIVE RoundedTotal(_)
RoundedTotal(k) ==
  IF k = 0 THEN 0 ELSE RoundedTotal(k - 1) + RoundedInt(sizes[k])

\* Every size so far is positive and the rounded sizes together fit the
\* reserved block.
WithinCapacity ==
  /\ \A k \in 1..Len(sizes) : 0 < sizes[k] /\ sizes[k] <= HeapBytes
  /\ RoundedTotal(Len(sizes)) <= HeapBytes

\* C2: while the sizes are positive and their rounded total is within the
\* reserved capacity, the addresses returned are strictly increasing and the
\* ranges [addr, addr + rounded size) of any two calls are disjoint.
C2_IncreasingDisjoint ==
  WithinCapacity =>
    \A i, j \in 1..Len(rets) :
      i < j =>
        /\ ULess(rets[i], rets[j])
        /\ ~ULess(rets[j], WAdd(rets[i], UPtr(RoundedInt(sizes[i]))))

C2_Witness ==
  /\ WithinCapacity
  /\ Len(rets) = 3
  /\ sizes[1] = 1
  /\ sizes[2] = 10

\* x, an address, is a multiple of four bytes from heap.
AlignedOffset(x) == WSub(x, heap)[1] % 4 = 0

\* C3: bump - heap is a multiple of 4 in every state, so every address
\* gcMalloc returns is a multiple of 4 bytes from heap, whatever the sizes.
C3_OffsetsMultipleOfFour ==
  /\ AlignedOffset(bump)
  /\ \A k \in 1..Len(rets) : AlignedOffset(rets[k])

C3_Witness ==
  /\ Len(rets) = 3
  /\ sizes[1] = 1
  /\ sizes[2] = -5
  /\ sizes[3] = INT_MAX

\* C4: heap <= bump <= heap + capacity in every state after main has reserved
\* the block.
C4_CursorWithinRegion ==
  (pc = "running" /\ heap # UPtr(0)) =>
    /\ ~ULess(bump, heap)
    /\ ~ULess(WAdd(heap, UPtr(HeapBytes)), bump)

\* C4 for callers that pass only positive sizes: violated as well, by calls
\* that together ask for more than the block holds.
CursorWithinRegionForPositiveSizes ==
  (\A k \in 1..Len(sizes) : sizes[k] > 0 /\ sizes[k] <= HeapBytes) =>
    C4_CursorWithinRegion

\* C5: bump never decreases, whatever int32_t size gcMalloc is called with,
\* and after main only gcMalloc changes it.
C5_CursorNeverDecreases ==
  [][/\ (pc = "running" /\ heap # UPtr(0)) => ~ULess(bump', bump)
     /\ (pc = "running" /\ bump' # bump) => Len(sizes') = Len(sizes) + 1]_vars

(***************************************************************************)
(* Properties of concurrent calls.                                         *)
(***************************************************************************)
\* Thread t has loaded bump into curr and has not yet stored bump.
InFlight(t) == tpc[t] \in {"load", "store"}

\* C6: gcMalloc is not atomic: two calls that are both between their load of
\* bump and their store of it hold the same cursor value, and each returns
\* the value it loaded, so both return the same address.
C6_ConcurrentCallsShareCursor ==
  /\ \A t1, t2 \in Threads :
       (InFlight(t1) /\ InFlight(t2)) => curr[t1] = curr[t2]
  /\ \A t \in Threads : tpc[t] = "done" => tret[t] = curr[t]

\* Both calls returned the same address for blocks of positive size.
C6_Witness ==
  /\ \A t \in Threads : tpc[t] = "done" /\ tsize[t] > 0
  /\ tret[1] = tret[2]
  /\ ULess(tret[1], WAdd(tret[2], UPtr(RoundedInt(tsize[2]))))
  /\ ULess(tret[2], WAdd(tret[1], UPtr(RoundedInt(tsize[1]))))

(***************************************************************************)
(* Properties of the arithmetic entry points.                              *)
(***************************************************************************)
\* The place of x among the operand values, which are in ascending order.
Rank(x) == CHOOSE i \in DOMAIN LongSamples : LongSamples[i] = x

\* C7: lAdd applied to the result of lSub(l, r) and to r yields l, for every
\* l and r, those whose difference overflows included: both wrap modulo 2^64
\* (INT64_MIN - 1 is INT64_MAX).
C7_SubThenAddRestores ==
  /\ calls = <<"lSub", "lAdd">> => result = l
  /\ (calls = <<"lSub">> /\ l = MinLong /\ r = I64(1)) => result = MaxLong
  /\ (calls = <<"lAdd">> /\ l = MaxLong /\ r = I64(1)) => result = MinLong

C7_Witness ==
  /\ calls = <<"lSub", "lAdd">>
  /\ l = MinLong
  /\ r = I64(1)
  /\ result = MinLong

\* q is the quotient of x by y truncated toward zero: what is left of x after
\* y * q is smaller in magnitude than y and is zero or has the sign of x, and
\* q is zero or has the sign the signs of x and y give.
TruncatedQuotient(q, x, y) ==
  LET m == WSub(x, WMul(y, q))
  IN /\ ULess(Abs(m), Abs(y))
     /\ m = I64(0) \/ IsNeg(m) = IsNeg(x)
     /\ q = I64(0) \/ IsNeg(q) = (IsNeg(x) # IsNeg(y))

\* C8: for r # 0 lDiv writes the quotient of l by r truncated toward zero
\* (7 / 2 = 3, -7 / 2 = -3) and lRem writes l - r * (l / r), which is zero or
\* has the sign of l; for r = 0 both fault and write nothing.
C8_DivRemTruncate ==
  /\ (calls = <<"lDiv">> /\ r # I64(0)) =>
        /\ pc = "running"
        /\ TruncatedQuotient(result, l, r)
        /\ (l = I64(7) /\ r = I64(2)) => result = I64(3)
        /\ (l = I64(-7) /\ r = I64(2)) => result = I64(-3)
  /\ (calls = <<"lRem">> /\ r # I64(0)) =>
        /\ pc = "running"
        /\ TruncatedQuotient(SDiv(l, r), l, r)
        /\ result = WSub(l, WMul(r, SDiv(l, r)))
        /\ result = I64(0) \/ IsNeg(result) = IsNeg(l)
  /\ ((calls = <<"lDiv">> \/ calls = <<"lRem">>) /\ r = I64(0)) =>
        /\ pc = "fault"
        /\ result = Poison

\* The part of C8 the code does guarantee: the same where l / r is defined.
DivRemWhereDefined ==
  /\ (calls = <<"lDiv">> /\ DivDefined(l, r)) =>
        /\ pc = "running"
        /\ TruncatedQuotient(result, l, r)
        /\ (l = I64(7) /\ r = I64(2)) => result = I64(3)
        /\ (l = I64(-7) /\ r = I64(2)) => result = I64(-3)
  /\ (calls = <<"lRem">> /\ DivDefined(l, r)) =>
        /\ pc = "running"
        /\ TruncatedQuotient(SDiv(l, r), l, r)
        /\ result = WSub(l, WMul(r, SDiv(l, r)))
        /\ result = I64(0) \/ IsNeg(result) = IsNeg(l)

\* C9: lCmp writes exactly one of 1, -1 and 0: 1 iff l > r, -1 iff l < r and
\* 0 iff l = r, the 64-bit extremes and l = r = 0 included.
C9_CompareThreeWay ==
  calls = <<"lCmp">> =>
    /\ result32 \in {I32(1), I32(-1), I32(0)}
    /\ result32 = I32(1) <=> Rank(l) > Rank(r)
    /\ result32 = I32(-1) <=> Rank(l) < Rank(r)
    /\ result32 = I32(0) <=> l = r

C9_Witness ==
  /\ calls = <<"lCmp">>
  /\ l = MinLong
  /\ r = MaxLong
  /\ result32 = I32(-1)

\* C10: for 0 <= v < 64, lShl moves bit i of l to bit i + v and loses the
\* bits moved past bit 63, and lUshr of that result by v is l with its top v
\* bits cleared: the low 64 - v bits of l are kept.
C10_ShlUshrKeepsLowBits ==
  /\ (calls = <<"lShl">> /\ v \in 0..63) =>
        \A i \in 0..63 :
          Bit(result, i) = IF i >= v THEN Bit(l, i - v) ELSE 0
  /\ (calls = <<"lShl", "lUshr">> /\ v \in 0..63) =>
        \A i \in 0..63 :
          Bit(result, i) = IF i < 64 - v THEN Bit(l, i) ELSE 0

C10_Witness ==
  /\ calls = <<"lShl", "lUshr">>
  /\ v = 17
  /\ l = I64(-7)
  /\ result = <<65529, 65535, 32767, 0>>

====
